---- MODULE Spec2Model ----
(***************************************************************************)
(* ESP8266 WiFi device shim (src/esp8266/esp_wifi.c): the radio mode       *)
(* manager, station / access-point setup, scan controller and event        *)
(* translator, over a model of the vendor SDK calls they make.             *)
(*                                                                         *)
(* Every handler runs to completion in one step (single-threaded,          *)
(* callback-driven).  The vendor calls a handler makes are recorded, in    *)
(* order and with their results, in `calls`; the callbacks it makes into   *)
(* the portable layer in `cbs`; its return value in `ret`.                 *)
(***************************************************************************)
EXTENDS Integers, Sequences, FiniteSets, TLC

\* ------------------------------------------------------------- bounds
\* At most this many distinct vendor calls fail inside one handler run.
MaxFail == 1
\* At most this many networks in the vendor's scan list.
MaxScan == 2

\* ---------------------------------------------------- vendor constants
NULL_MODE == 0
STATION_MODE == 1
SOFTAP_MODE == 2
STATIONAP_MODE == 3
Modes == {NULL_MODE, STATION_MODE, SOFTAP_MODE, STATIONAP_MODE}

\* sleep type of the SDK: modem sleep off
NONE_SLEEP_T == 0

\* rate families and the default max/min rate identifiers
RC_LIMIT_11B == 0
RC_LIMIT_11G == 1
RC_LIMIT_11N == 2
RATE_11B_B11M == 0
RATE_11B_B1M == 3
RATE_11G_G54M == 0
RATE_11G_B1M == 10
RATE_11N_MCS7S == 0
RATE_11N_B1M == 11
LIMIT_RATE_MASK_STA == 1

\* scan status
OK == 0
FAIL == 1
CANCEL == 4
Statuses == {OK, FAIL, CANCEL}

\* vendor authentication modes
AUTH_OPEN == 0
AUTH_WEP == 1
AUTH_WPA_PSK == 2
AUTH_WPA2_PSK == 3
AUTH_WPA_WPA2_PSK == 4
AUTH_MAX == 5

\* portable authentication modes (mgos_wifi.h)
MGOS_WIFI_AUTH_MODE_OPEN == 0
MGOS_WIFI_AUTH_MODE_WEP == 1
MGOS_WIFI_AUTH_MODE_WPA_PSK == 2
MGOS_WIFI_AUTH_MODE_WPA2_PSK == 3
MGOS_WIFI_AUTH_MODE_WPA_WPA2_PSK == 4

\* portable event codes (mgos_wifi.h): MGOS_EVENT_BASE('W', 'F', 'I') + n
MGOS_WIFI_EV_BASE == 1464224000
MGOS_WIFI_EV_STA_DISCONNECTED == MGOS_WIFI_EV_BASE
MGOS_WIFI_EV_STA_CONNECTED == MGOS_WIFI_EV_BASE + 2
MGOS_WIFI_EV_STA_IP_ACQUIRED == MGOS_WIFI_EV_BASE + 3
MGOS_WIFI_EV_AP_STA_CONNECTED == MGOS_WIFI_EV_BASE + 4
MGOS_WIFI_EV_AP_STA_DISCONNECTED == MGOS_WIFI_EV_BASE + 5

VARIABLES
  s_cur_mode,     \* static uint8_t s_cur_mode
  opmode,         \* SDK: operating mode last applied by wifi_set_opmode_current
  scan_pending,   \* SDK: a scan request was accepted, wifi_scan_done is due
  wpaent,         \* build: MGOS_ESP8266_WIFI_ENABLE_WPAENT
  pc,             \* "idle", or "done" right after a handler returned
  op,             \* the handler that ran last
  arg,            \* its arguments
  old_mode,       \* s_cur_mode when it was entered
  calls,          \* the vendor calls it made, in order
  cbs,            \* the portable-layer callbacks it made, in order
  ret,            \* its return value
  sta_enable,     \* history: cfg->enable of the most recent mgos_wifi_dev_sta_setup
  ap_enable,      \* history: cfg->enable of the most recent mgos_wifi_dev_ap_setup
  scanned         \* history: mgos_wifi_dev_start_scan ran since that sta_setup

vars == <<s_cur_mode, opmode, scan_pending, wpaent, pc, op, arg, old_mode, calls, cbs, ret, sta_enable, ap_enable,
          scanned>>

\* ------------------------------------------------------- vendor SDK model
\* A handler run is computed on a record m of the state it reads and writes:
\* cur (s_cur_mode), opmode, pending, calls, cbs, ret.
\* F is the set of vendor calls <<fn, k>> that fail in this run.

Succeeds(F, fn, k) == <<fn, k>> \notin F

Log(m, fn, a, ok) ==
  [m EXCEPT !.calls = Append(@, [fn |-> fn, arg |-> a, ok |-> ok])]

\* a vendor call with no effect on the modelled SDK state
Vendor(m, fn, a, k, F) == Log(m, fn, a, Succeeds(F, fn, k))

LastOk(m) == m.calls[Len(m.calls)].ok

Return(m, v) == [m EXCEPT !.ret = v]

wifi_set_opmode_current(m, mode, F) ==
  LET ok == Succeeds(F, "wifi_set_opmode_current", 0)
  IN  [Log(m, "wifi_set_opmode_current", mode, ok)
         EXCEPT !.opmode = IF ok THEN mode ELSE @]

wifi_set_sleep_type(m, t) == Log(m, "wifi_set_sleep_type", t, TRUE)

wifi_station_scan(m, F) ==
  LET ok == Succeeds(F, "wifi_station_scan", 0)
  IN  [Log(m, "wifi_station_scan", 0, ok)
         EXCEPT !.pending = IF ok THEN TRUE ELSE @]

wifi_set_event_handler_cb(m) == Log(m, "wifi_set_event_handler_cb", 0, TRUE)

\* --------------------------------------------------------- mode manager
\* faulty variant: s_cur_mode is stored before the vendor call is checked
mgos_wifi_set_mode_early(m, mode, F) ==
  LET m1 == [wifi_set_opmode_current(m, mode, F) EXCEPT !.cur = mode]
  IN  IF ~LastOk(m1) THEN Return(m1, FALSE)
      ELSE IF mode = STATION_MODE
           THEN Return(wifi_set_sleep_type(m1, NONE_SLEEP_T), TRUE)
           ELSE Return(m1, TRUE)

mgos_wifi_set_mode(m, mode, F) ==
  LET m1 == wifi_set_opmode_current(m, mode, F)
  IN  IF ~LastOk(m1) THEN Return(m1, FALSE)
      ELSE LET m2 == [m1 EXCEPT !.cur = mode]
           IN  IF mode = STATION_MODE
               THEN Return(wifi_set_sleep_type(m2, NONE_SLEEP_T), TRUE)
               ELSE Return(m2, TRUE)

\* faulty variant: no early return when station+access-point is active
mgos_wifi_add_mode_narrow(m, mode, F) ==
  IF m.cur = mode
  THEN Return(m, TRUE)
  ELSE LET mode2 == IF \/ (m.cur = SOFTAP_MODE /\ mode = STATION_MODE)
                       \/ (m.cur = STATION_MODE /\ mode = SOFTAP_MODE)
                    THEN STATIONAP_MODE
                    ELSE mode
       IN  mgos_wifi_set_mode(m, mode2, F)

\* faulty variant: the requested mode replaces the current one
mgos_wifi_add_mode_replace(m, mode, F) ==
  IF m.cur = mode \/ m.cur = STATIONAP_MODE
  THEN Return(m, TRUE)
  ELSE mgos_wifi_set_mode(m, mode, F)

mgos_wifi_add_mode(m, mode, F) ==
  IF m.cur = mode \/ m.cur = STATIONAP_MODE
  THEN Return(m, TRUE)
  ELSE LET mode2 == IF \/ (m.cur = SOFTAP_MODE /\ mode = STATION_MODE)
                       \/ (m.cur = STATION_MODE /\ mode = SOFTAP_MODE)
                    THEN STATIONAP_MODE
                    ELSE mode
       IN  mgos_wifi_set_mode(m, mode2, F)

\* faulty variant: removing from the combined mode switches the radio off
mgos_wifi_remove_mode_off(m, mode, F) ==
  IF \/ (mode = STATION_MODE /\ m.cur = SOFTAP_MODE)
     \/ (mode = SOFTAP_MODE /\ m.cur = STATION_MODE)
     \/ m.cur = NULL_MODE
  THEN Return(m, TRUE)
  ELSE mgos_wifi_set_mode(m, NULL_MODE, F)

mgos_wifi_remove_mode(m, mode, F) ==
  IF \/ (mode = STATION_MODE /\ m.cur = SOFTAP_MODE)
     \/ (mode = SOFTAP_MODE /\ m.cur = STATION_MODE)
     \/ m.cur = NULL_MODE
  THEN Return(m, TRUE)
  ELSE LET mode2 == IF \/ mode = STATIONAP_MODE
                       \/ (mode = STATION_MODE /\ m.cur = STATION_MODE)
                       \/ (mode = SOFTAP_MODE /\ m.cur = SOFTAP_MODE)
                    THEN NULL_MODE
                    ELSE IF mode = STATION_MODE THEN SOFTAP_MODE
                    ELSE STATION_MODE
       IN  mgos_wifi_set_mode(m, mode2, F)

\* --------------------------------------------------------- rate limiter
STATION_IF == 0
SOFTAP_IF == 1

\* (uint8_t)(v >> 8) and (uint8_t)(v) of a packed limit
RateMax(v) == (v \div 256) % 256
RateMin(v) == v % 256

\* one family: wifi_set_user_rate_limit(family, STATION_IF, max, min)
SetRateLimit(m, family, v, dmax, dmin, F) ==
  LET max == IF v # -1 THEN RateMax(v) ELSE dmax
      min == IF v # -1 THEN RateMin(v) ELSE dmin
  IN  Vendor(m, "wifi_set_user_rate_limit", max * 256 + min, family, F)

esp_wifi_set_rate_limits(m, wcfg, F) ==
  LET enable_rate_limit ==
        wcfg.tx_rate_limit_11b # -1 \/ wcfg.tx_rate_limit_11g # -1
          \/ wcfg.tx_rate_limit_11n # -1
      m1 == SetRateLimit(m, RC_LIMIT_11B, wcfg.tx_rate_limit_11b,
                         RATE_11B_B11M, RATE_11B_B1M, F)
      m2 == SetRateLimit(m1, RC_LIMIT_11G, wcfg.tx_rate_limit_11g,
                         RATE_11G_G54M, RATE_11G_B1M, F)
      m3 == SetRateLimit(m2, RC_LIMIT_11N, wcfg.tx_rate_limit_11n,
                         RATE_11N_MCS7S, RATE_11N_B1M, F)
      valid_rate_limit == LastOk(m1) /\ LastOk(m2) /\ LastOk(m3)
      \* wifi_get_user_limit_rate_mask(): only the station bit is ever written
      \* here and it is overwritten below, so the other bits are read as 0
      m4 == Log(m3, "wifi_get_user_limit_rate_mask", 0, TRUE)
      \* limit_mask |= LIMIT_RATE_MASK_STA, or limit_mask &= ~LIMIT_RATE_MASK_STA
      limit_mask == IF enable_rate_limit /\ valid_rate_limit
                    THEN LIMIT_RATE_MASK_STA
                    ELSE 0
  IN  Vendor(m4, "wifi_set_user_limit_rate_mask", limit_mask, 0, F)

\* -------------------------------------------------------- BSSID parsing
HexDigits == {"0", "1", "2", "3", "4", "5", "6", "7", "8", "9",
              "a", "b", "c", "d", "e", "f", "A", "B", "C", "D", "E", "F"}

IsHex(s, i) == i <= Len(s) /\ s[i] \in HexDigits

\* sscanf(s, "%02x:%02x:%02x:%02x:%02x:%02x", ...): n conversions are done and
\* the next one starts at position i; %02x takes one or two hex digits, a
\* literal ':' must follow each of the first five; the result is the number
\* of conversions made, or EOF (-1) when the input ends before the first.
RECURSIVE sscanf_from(_, _, _)
sscanf_from(s, i, n) ==
  LET d == IF ~IsHex(s, i) THEN 0 ELSE IF IsHex(s, i + 1) THEN 2 ELSE 1
  IN  IF d = 0 THEN (IF n = 0 /\ i > Len(s) THEN -1 ELSE n)
      ELSE IF n + 1 = 6 THEN 6
      ELSE IF i + d <= Len(s) /\ s[i + d] = ":"
           THEN sscanf_from(s, i + d + 1, n + 1)
           ELSE n + 1

sscanf_bssid(s) == sscanf_from(s, 1, 0)

\* --------------------------------------------------------- station setup
\* WPA enterprise block (built only with MGOS_ESP8266_WIFI_ENABLE_WPAENT)
EnterpriseCertKey(m, cfg, F) ==
  IF cfg.cert /\ cfg.key
  THEN LET m1 == Vendor(m, "cs_read_file", 1, 1, F)
       IN  IF ~LastOk(m1) THEN Return(m1, FALSE)
           ELSE LET m2 == Vendor(m1, "cs_read_file", 2, 2, F)
                IN  IF ~LastOk(m2) THEN Return(m2, FALSE)
                    ELSE Return(Log(m2, "wifi_station_set_enterprise_cert_key",
                                    0, TRUE), TRUE)
  ELSE Return(m, TRUE)

EnterpriseCaCert(m, cfg, F) ==
  IF cfg.ca_cert
  THEN LET m1 == Vendor(m, "cs_read_file", 0, 0, F)
       IN  IF ~LastOk(m1) THEN Return(m1, FALSE)
           ELSE Return(Log(m1, "wifi_station_set_enterprise_ca_cert", 0, TRUE),
                       TRUE)
  ELSE Return(Log(m, "wifi_station_clear_enterprise_ca_cert", 0, TRUE), TRUE)

\* ret = FALSE: the block returned false from the setup
Enterprise(m, cfg, F) ==
  LET m1 == Log(m, "wifi_station_set_enterprise_username", 0, TRUE)
      m2 == Log(m1, "wifi_station_set_enterprise_identity",
                IF cfg.anon_identity THEN 1 ELSE 0, TRUE)
      m3 == IF cfg.pass
            THEN Log(m2, "wifi_station_set_enterprise_password", 0, TRUE)
            ELSE Log(m2, "wifi_station_clear_enterprise_password", 0, TRUE)
      m4 == EnterpriseCaCert(m3, cfg, F)
      m5 == EnterpriseCertKey(m4, cfg, F)
      m6 == Log(m5, "wifi_station_clear_enterprise_new_password", 0, TRUE)
      m7 == Log(m6, "wifi_station_set_enterprise_disable_time_check", 1, TRUE)
  IN  IF ~m4.ret THEN m4
      ELSE IF ~m5.ret THEN m5
      ELSE Return(Log(m7, "wifi_station_set_wpa2_enterprise_auth", 1, TRUE), TRUE)

\* lines 293-367: enterprise authentication, then the DHCP host name
StaSetupAuthHost(m, cfg, F, ent) ==
  LET m1 == IF cfg.cert \/ cfg.user
            THEN (IF ent THEN Enterprise(m, cfg, F) ELSE Return(m, TRUE))
            ELSE (IF ent
                  THEN Return(Log(m, "wifi_station_set_wpa2_enterprise_auth",
                                  0, TRUE), TRUE)
                  ELSE Return(m, TRUE))
  IN  IF ~m1.ret THEN m1
      ELSE IF cfg.host_name
           THEN LET m2 == Vendor(m1, "wifi_station_set_hostname", 0, 0, F)
                IN  Return(m2, LastOk(m2))
           ELSE Return(m1, TRUE)

\* lines 263-291: static IP, station config, reconnect policy
StaSetupConfig(m, cfg, F, ent, bssid_set) ==
  LET m1 == IF cfg.ip /\ cfg.netmask
            THEN Vendor(Log(m, "wifi_station_dhcpc_stop", 0, TRUE),
                        "wifi_set_ip_info", STATION_IF, STATION_IF, F)
            ELSE m
      ipFailed == cfg.ip /\ cfg.netmask /\ ~LastOk(m1)
      m2 == Vendor(m1, "wifi_station_set_config_current",
                   IF bssid_set THEN 1 ELSE 0, 0, F)
      m3 == Log(m2, "wifi_station_set_auto_connect", 0, TRUE)
      m4 == Log(m3, "wifi_station_set_reconnect_policy", 0, TRUE)
  IN  IF ipFailed THEN Return(m1, FALSE)
      ELSE IF ~LastOk(m2) THEN Return(m2, FALSE)
      ELSE StaSetupAuthHost(m4, cfg, F, ent)

\* faulty variant: the BSSID is validated after the configuration is applied
mgos_wifi_dev_sta_setup_late(m, cfg, wcfg, F, ent) ==
  IF ~cfg.enable THEN mgos_wifi_remove_mode(m, STATION_MODE, F)
  ELSE
    LET m1 == Log(m, "wifi_station_disconnect", 0, TRUE)
        m2 == esp_wifi_set_rate_limits(m1, wcfg, F)
        m3 == mgos_wifi_add_mode(m2, STATION_MODE, F)
        m4 == StaSetupConfig(m3, cfg, F, ent, ~cfg.bssid.null)
    IN  IF ~m3.ret THEN m3
        ELSE IF ~cfg.bssid.null /\ sscanf_bssid(cfg.bssid.s) # 6
             THEN Return(m4, FALSE)
             ELSE m4

mgos_wifi_dev_sta_setup(m, cfg, wcfg, F, ent) ==
  IF ~cfg.enable THEN mgos_wifi_remove_mode(m, STATION_MODE, F)
  ELSE
    LET m1 == Log(m, "wifi_station_disconnect", 0, TRUE)
        m2 == esp_wifi_set_rate_limits(m1, wcfg, F)
        m3 == mgos_wifi_add_mode(m2, STATION_MODE, F)
    IN  IF ~m3.ret THEN m3
        ELSE IF ~cfg.bssid.null /\ sscanf_bssid(cfg.bssid.s) # 6
             THEN Return(m3, FALSE)
             ELSE StaSetupConfig(m3, cfg, F, ent, ~cfg.bssid.null)

\* ---------------------------------------------------- access-point setup
\* lines 401-444: DHCP server and IP configuration
ApSetupDhcp(m, cfg, F) ==
  LET m1 == Vendor(m, "wifi_softap_dhcps_stop", 0, 0, F)
      m2 == Vendor(m1, "wifi_set_ip_info", SOFTAP_IF, SOFTAP_IF, F)
      m3 == Vendor(m2, "wifi_softap_set_dhcps_lease", 0, 0, F)
      m4 == Vendor(m3, "wifi_softap_set_dhcps_offer_option", 0, 0, F)
      m5 == Vendor(m4, "wifi_softap_dhcps_start", 0, 0, F)
  IN  IF ~LastOk(m2) THEN Return(m2, FALSE)
      ELSE IF ~LastOk(m3) THEN Return(m3, FALSE)
      ELSE Return(m5, LastOk(m5))

mgos_wifi_dev_ap_setup(m, cfg, wcfg, F) ==
  IF ~cfg.enable THEN mgos_wifi_remove_mode(m, SOFTAP_MODE, F)
  ELSE
    LET m1 == esp_wifi_set_rate_limits(m, wcfg, F)
        m2 == mgos_wifi_add_mode(m1, SOFTAP_MODE, F)
        authmode == IF cfg.pass THEN AUTH_WPA2_PSK ELSE AUTH_OPEN
        m3 == Vendor(m2, "wifi_softap_set_config_current", authmode, 0, F)
    IN  IF ~m2.ret THEN m2
        ELSE IF ~LastOk(m3) THEN Return(m3, FALSE)
        ELSE ApSetupDhcp(m3, cfg, F)

\* ------------------------------------------------------ scan controller
\* one bss_info of the vendor's list -> one mgos_wifi_scan_result; the array
\* comes zeroed from calloc, so an authmode the switch does not map leaves 0
ScanResult(p) ==
  [bssid |-> p.bssid,
   channel |-> p.channel,
   auth_mode |->
     CASE p.authmode = AUTH_OPEN -> MGOS_WIFI_AUTH_MODE_OPEN
       [] p.authmode = AUTH_WEP -> MGOS_WIFI_AUTH_MODE_WEP
       [] p.authmode = AUTH_WPA_PSK -> MGOS_WIFI_AUTH_MODE_WPA_PSK
       [] p.authmode = AUTH_WPA2_PSK -> MGOS_WIFI_AUTH_MODE_WPA2_PSK
       [] p.authmode = AUTH_WPA_WPA2_PSK -> MGOS_WIFI_AUTH_MODE_WPA_WPA2_PSK
       [] OTHER -> 0]

mgos_wifi_dev_scan_cb(m, n, null, res) ==
  [m EXCEPT !.cbs = Append(@, [cb |-> "mgos_wifi_dev_scan_cb", n |-> n,
                               null |-> null, res |-> res])]

\* faulty variant: the out-of-memory path returns without the callback
wifi_scan_done_silent(m, info, status, F) ==
  IF status # OK THEN mgos_wifi_dev_scan_cb(m, -1, TRUE, <<>>)
  ELSE
    LET n == Len(info)
        m1 == Vendor(m, "calloc", n, 0, F)
    IN  IF n = 0 THEN mgos_wifi_dev_scan_cb(m, 0, TRUE, <<>>)
        ELSE IF ~LastOk(m1) THEN m1
        ELSE mgos_wifi_dev_scan_cb(m1, n, FALSE,
                                   [i \in 1..n |-> ScanResult(info[i])])

wifi_scan_done(m, info, status, F) ==
  IF status # OK THEN mgos_wifi_dev_scan_cb(m, -1, TRUE, <<>>)
  ELSE
    LET n == Len(info)
        m1 == Vendor(m, "calloc", n, 0, F)
    IN  IF n = 0 THEN mgos_wifi_dev_scan_cb(m, 0, TRUE, <<>>)
        ELSE IF ~LastOk(m1) THEN mgos_wifi_dev_scan_cb(m1, -1, TRUE, <<>>)
        ELSE mgos_wifi_dev_scan_cb(m1, n, FALSE,
                                   [i \in 1..n |-> ScanResult(info[i])])

mgos_wifi_dev_start_scan(m, F) ==
  LET m1 == mgos_wifi_add_mode(m, STATION_MODE, F)
  IN  IF ~m1.ret THEN m1
      ELSE LET m2 == wifi_station_scan(m1, F)
           IN  Return(m2, LastOk(m2))

mgos_wifi_dev_init(m, F) ==
  wifi_set_event_handler_cb(wifi_set_opmode_current(m, NULL_MODE, F))

mgos_wifi_dev_deinit(m, F) == wifi_set_opmode_current(m, NULL_MODE, F)

\* ------------------------------------------------------ event translator
MappedEvents == {"EVENT_STAMODE_DISCONNECTED", "EVENT_STAMODE_CONNECTED",
                 "EVENT_STAMODE_GOT_IP", "EVENT_SOFTAPMODE_STACONNECTED",
                 "EVENT_SOFTAPMODE_STADISCONNECTED"}

\* EVENT_OPMODE_CHANGED and EVENT_SOFTAPMODE_DISTRIBUTE_STA_IP have no case
VendorEvents == MappedEvents \cup
                {"EVENT_STAMODE_AUTHMODE_CHANGE", "EVENT_SOFTAPMODE_PROBEREQRECVED",
                 "EVENT_STAMODE_DHCP_TIMEOUT", "EVENT_MAX", "EVENT_OPMODE_CHANGED",
                 "EVENT_SOFTAPMODE_DISTRIBUTE_STA_IP"}

\* dei.ev after the switch; dei starts as {0}
DeiEv(evt) ==
  CASE evt.event = "EVENT_STAMODE_DISCONNECTED" -> MGOS_WIFI_EV_STA_DISCONNECTED
    [] evt.event = "EVENT_STAMODE_CONNECTED" -> MGOS_WIFI_EV_STA_CONNECTED
    [] evt.event = "EVENT_STAMODE_GOT_IP" -> MGOS_WIFI_EV_STA_IP_ACQUIRED
    [] evt.event = "EVENT_SOFTAPMODE_STACONNECTED" -> MGOS_WIFI_EV_AP_STA_CONNECTED
    [] evt.event = "EVENT_SOFTAPMODE_STADISCONNECTED" ->
         MGOS_WIFI_EV_AP_STA_DISCONNECTED
    [] OTHER -> 0

\* the payload copied into dei: reason, bssid and channel, or mac; 0 if none
DeiInfo(evt) ==
  IF evt.event \in MappedEvents \ {"EVENT_STAMODE_GOT_IP"} THEN evt.info ELSE 0

mgos_wifi_dev_event_cb(m, ev, info) ==
  [m EXCEPT !.cbs = Append(@, [cb |-> "mgos_wifi_dev_event_cb", ev |-> ev,
                               info |-> info])]

\* faulty variant: disconnects on every change of the authentication mode
wifi_changed_cb_any(m, evt) ==
  LET m1 == IF evt.event = "EVENT_STAMODE_AUTHMODE_CHANGE"
            THEN Log(m, "wifi_station_disconnect", 0, TRUE)
            ELSE m
  IN  IF DeiEv(evt) # 0 THEN mgos_wifi_dev_event_cb(m1, DeiEv(evt), DeiInfo(evt))
      ELSE m1

wifi_changed_cb(m, evt) ==
  LET m1 == IF /\ evt.event = "EVENT_STAMODE_AUTHMODE_CHANGE"
               /\ evt.old_mode # AUTH_OPEN
               /\ evt.new_mode = AUTH_OPEN
            THEN Log(m, "wifi_station_disconnect", 0, TRUE)
            ELSE m
  IN  IF DeiEv(evt) # 0 THEN mgos_wifi_dev_event_cb(m1, DeiEv(evt), DeiInfo(evt))
      ELSE m1

\* ---------------------------------------------------------------- inputs
RECURSIVE FailSetsUpTo(_, _)
FailSetsUpTo(U, k) ==
  IF k = 0 THEN {{}}
  ELSE LET P == FailSetsUpTo(U, k - 1)
       IN  P \cup {S \cup {c} : S \in P, c \in U}

FailSets(U) == FailSetsUpTo(U, MaxFail)

\* the calls whose result a handler reads, or that the specification names
RateCalls == {<<"wifi_set_user_rate_limit", RC_LIMIT_11B>>,
              <<"wifi_set_user_rate_limit", RC_LIMIT_11G>>,
              <<"wifi_set_user_rate_limit", RC_LIMIT_11N>>,
              <<"wifi_set_user_limit_rate_mask", 0>>}
ModeCalls == {<<"wifi_set_opmode_current", 0>>}
StaCalls == ModeCalls \cup RateCalls \cup
            {<<"wifi_set_ip_info", STATION_IF>>,
             <<"wifi_station_set_config_current", 0>>,
             <<"wifi_station_set_hostname", 0>>,
             <<"cs_read_file", 0>>, <<"cs_read_file", 1>>, <<"cs_read_file", 2>>}
ApCalls == ModeCalls \cup RateCalls \cup
           {<<"wifi_softap_set_config_current", 0>>,
            <<"wifi_softap_dhcps_stop", 0>>,
            <<"wifi_set_ip_info", SOFTAP_IF>>,
            <<"wifi_softap_set_dhcps_lease", 0>>,
            <<"wifi_softap_set_dhcps_offer_option", 0>>,
            <<"wifi_softap_dhcps_start", 0>>}
ScanCalls == ModeCalls \cup {<<"wifi_station_scan", 0>>}
AllocCalls == {<<"calloc", 0>>}

\* cfg->bssid: NULL, or a string (one character per element)
NoBssid == [null |-> TRUE, s |-> <<>>]
BssidStrings ==
  { <<"a", "0", ":", "1", "b", ":", "c", "C", ":", "d", "d", ":", "e", "e", ":",
      "f", "f">>,
    <<"a", ":", "b", ":", "c", ":", "d", ":", "e", ":", "f">>,
    <<"a", ":", "b", ":", "c", ":", "d", ":", "e", ":", "f", ":", "0">>,
    <<"a", "0", ":", "1", "b", ":", "c", "c", ":", "d", "d", ":", "e", "e">>,
    <<"a", "0", ":", "1", "b", ":", "c", "c", ":", "d", "d", ":", "e", "e", ":",
      "z", "z">>,
    <<"a", "0", "1", "b", "c", "c", "d", "d", "e", "e", "f", "f">>,
    <<>> }
Bssids == {NoBssid} \cup {[null |-> FALSE, s |-> x] : x \in BssidStrings}

\* a station configuration: which strings are set (non-empty), and the BSSID
StaBase ==
  [enable |-> TRUE, bssid |-> NoBssid, ip |-> FALSE, netmask |-> FALSE,
   gw |-> FALSE, user |-> FALSE, pass |-> TRUE, cert |-> FALSE, key |-> FALSE,
   ca_cert |-> FALSE, anon_identity |-> FALSE, host_name |-> TRUE]
StaCfgs ==
  {[StaBase EXCEPT !.enable = FALSE]}
    \cup {[StaBase EXCEPT !.bssid = b] : b \in Bssids}
    \cup {[StaBase EXCEPT !.ip = TRUE, !.netmask = TRUE, !.gw = TRUE],
          [StaBase EXCEPT !.ip = TRUE],
          [StaBase EXCEPT !.pass = FALSE, !.host_name = FALSE],
          [StaBase EXCEPT !.user = TRUE],
          [StaBase EXCEPT !.user = TRUE, !.anon_identity = TRUE, !.cert = TRUE,
                          !.key = TRUE, !.ca_cert = TRUE]}

ApBase == [enable |-> TRUE, pass |-> TRUE, gw |-> TRUE]
ApCfgs == {ApBase, [ApBase EXCEPT !.enable = FALSE],
           [ApBase EXCEPT !.pass = FALSE, !.gw = FALSE]}

\* mgos_sys_config_get_wifi(): the packed transmit rate limits, -1 if unset
NoLimits ==
  [tx_rate_limit_11b |-> -1, tx_rate_limit_11g |-> -1, tx_rate_limit_11n |-> -1]
WifiCfgs == {NoLimits, [NoLimits EXCEPT !.tx_rate_limit_11b = 259]}

\* the configurations a setup is called with
StaInputs == {[cfg |-> c, wcfg |-> NoLimits] : c \in StaCfgs}
               \cup {[cfg |-> StaBase, wcfg |-> w] : w \in WifiCfgs}
ApInputs == {[cfg |-> c, wcfg |-> NoLimits] : c \in ApCfgs}
              \cup {[cfg |-> ApBase, wcfg |-> w] : w \in WifiCfgs}

BssInfos == {[bssid |-> 1, channel |-> 1, authmode |-> AUTH_OPEN],
             [bssid |-> 2, channel |-> 6, authmode |-> AUTH_WPA2_PSK],
             [bssid |-> 3, channel |-> 11, authmode |-> AUTH_MAX]}

RECURSIVE SeqsUpTo(_, _)
SeqsUpTo(S, k) ==
  IF k = 0 THEN {<<>>}
  ELSE LET P == SeqsUpTo(S, k - 1)
       IN  P \cup {Append(q, x) : q \in P, x \in S}

ScanLists == SeqsUpTo(BssInfos, MaxScan)

\* what the SDK hands to wifi_scan_done: a list with status OK, or a failure
ScanDones ==
  {[info |-> q, status |-> OK] : q \in ScanLists}
    \cup {[info |-> <<>>, status |-> st] : st \in Statuses \ {OK}}
    \cup {[info |-> <<x>>, status |-> FAIL] : x \in BssInfos}

SystemEvents ==
  [event : VendorEvents \ {"EVENT_STAMODE_AUTHMODE_CHANGE"}, info : {1, 2},
   old_mode : {AUTH_OPEN}, new_mode : {AUTH_OPEN}]
    \cup [event : {"EVENT_STAMODE_AUTHMODE_CHANGE"}, info : {0},
          old_mode : {AUTH_OPEN, AUTH_WEP, AUTH_WPA2_PSK},
          new_mode : {AUTH_OPEN, AUTH_WEP, AUTH_WPA2_PSK}]

\* --------------------------------------------------------------- actions
NoArg == [none |-> TRUE]

Machine ==
  [cur |-> s_cur_mode, opmode |-> opmode, pending |-> scan_pending,
   calls |-> <<>>, cbs |-> <<>>, ret |-> TRUE]

AnyFailed(m) == \E i \in 1..Len(m.calls) : ~m.calls[i].ok

\* handler `name` ran on `a` from an idle system and left m
Ran(name, a, m) ==
  /\ pc = "idle"
  /\ pc' = "done"
  /\ op' = name
  /\ arg' = a
  /\ old_mode' = s_cur_mode
  /\ s_cur_mode' = m.cur
  /\ opmode' = m.opmode
  /\ scan_pending' = m.pending
  /\ calls' = m.calls
  /\ cbs' = m.cbs
  /\ ret' = m.ret
  /\ UNCHANGED wpaent

TypeOK ==
  /\ s_cur_mode \in Modes
  /\ opmode \in Modes
  /\ pc \in {"idle", "done"}
  /\ ret \in BOOLEAN

\* the state once the library has booted: s_cur_mode as initialised, the radio
\* off and wifi_changed_cb registered by the boot-time mgos_wifi_dev_init
Init ==
  /\ s_cur_mode = NULL_MODE
  /\ opmode = NULL_MODE
  /\ scan_pending = FALSE
  /\ wpaent \in BOOLEAN
  /\ pc = "idle"
  /\ op = "none"
  /\ arg = NoArg
  /\ old_mode = NULL_MODE
  /\ calls = <<>>
  /\ cbs = <<>>
  /\ ret = TRUE
  /\ sta_enable = FALSE
  /\ ap_enable = FALSE
  /\ scanned = FALSE

DevInit ==
  \E F \in FailSets(ModeCalls) :
    /\ Ran("mgos_wifi_dev_init", NoArg, mgos_wifi_dev_init(Machine, F))
    /\ UNCHANGED <<sta_enable, ap_enable, scanned>>

DevDeinit ==
  \E F \in FailSets(ModeCalls) :
    /\ Ran("mgos_wifi_dev_deinit", NoArg, mgos_wifi_dev_deinit(Machine, F))
    /\ UNCHANGED <<sta_enable, ap_enable, scanned>>

StaSetup ==
  \E a \in StaInputs, F \in FailSets(StaCalls) :
    /\ Ran("mgos_wifi_dev_sta_setup", a,
           mgos_wifi_dev_sta_setup(Machine, a.cfg, a.wcfg, F, wpaent))
    /\ sta_enable' = a.cfg.enable
    /\ scanned' = FALSE
    /\ UNCHANGED ap_enable

ApSetup ==
  \E a \in ApInputs, F \in FailSets(ApCalls) :
    /\ Ran("mgos_wifi_dev_ap_setup", a,
           mgos_wifi_dev_ap_setup(Machine, a.cfg, a.wcfg, F))
    /\ ap_enable' = a.cfg.enable
    /\ UNCHANGED <<sta_enable, scanned>>

StartScan ==
  \E F \in FailSets(ScanCalls) :
    /\ Ran("mgos_wifi_dev_start_scan", NoArg, mgos_wifi_dev_start_scan(Machine, F))
    /\ scanned' = TRUE
    /\ UNCHANGED <<sta_enable, ap_enable>>

\* the SDK completes an accepted scan request
ScanDone ==
  /\ scan_pending
  /\ \E a \in ScanDones, F \in FailSets(AllocCalls) :
       Ran("wifi_scan_done", a,
           wifi_scan_done([Machine EXCEPT !.pending = FALSE], a.info, a.status, F))
  /\ UNCHANGED <<sta_enable, ap_enable, scanned>>

\* the SDK delivers an event to the handler mgos_wifi_dev_init registered
SystemEvent ==
  /\ \E evt \in SystemEvents :
       Ran("wifi_changed_cb", evt, wifi_changed_cb(Machine, evt))
  /\ UNCHANGED <<sta_enable, ap_enable, scanned>>

\* the handler's caller has taken its result; the system is idle again
Idle ==
  /\ pc = "done"
  /\ pc' = "idle"
  /\ op' = "none"
  /\ arg' = NoArg
  /\ old_mode' = s_cur_mode
  /\ calls' = <<>>
  /\ cbs' = <<>>
  /\ ret' = TRUE
  /\ UNCHANGED <<s_cur_mode, opmode, scan_pending, wpaent, sta_enable, ap_enable,
                 scanned>>

Next ==
  \/ DevInit
  \/ DevDeinit
  \/ StaSetup
  \/ ApSetup
  \/ StartScan
  \/ ScanDone
  \/ SystemEvent
  \/ Idle

Spec == Init /\ [][Next]_vars

\* only runs in which every vendor call succeeds (a file that cannot be read
\* or an allocation that fails is no vendor call)
StepFailed ==
  \E i \in 1..Len(calls') :
    ~calls'[i].ok /\ calls'[i].fn \notin {"cs_read_file", "calloc"}
NextOK ==
  \/ DevInit /\ ~StepFailed
  \/ DevDeinit /\ ~StepFailed
  \/ StaSetup /\ ~StepFailed
  \/ ApSetup /\ ~StepFailed
  \/ StartScan /\ ~StepFailed
  \/ ScanDone /\ ~StepFailed
  \/ SystemEvent /\ ~StepFailed
  \/ Idle
SpecOK == Init /\ [][NextOK]_vars

\* ------------------------------------------- the mode manager on its own
\* mgos_wifi_add_mode and mgos_wifi_remove_mode applied to every current mode
\* the program can be in, with every requested mode
InitMode ==
  /\ s_cur_mode \in Modes
  /\ opmode \in {s_cur_mode, NULL_MODE}
  /\ scan_pending = FALSE
  /\ wpaent \in BOOLEAN
  /\ pc = "idle"
  /\ op = "none"
  /\ arg = NoArg
  /\ old_mode = s_cur_mode
  /\ calls = <<>>
  /\ cbs = <<>>
  /\ ret = TRUE
  /\ sta_enable = FALSE
  /\ ap_enable = FALSE
  /\ scanned = FALSE

AddMode ==
  \E mode \in Modes \ {NULL_MODE}, F \in FailSets(ModeCalls) :
    /\ Ran("mgos_wifi_add_mode", [mode |-> mode],
           mgos_wifi_add_mode(Machine, mode, F))
    /\ UNCHANGED <<sta_enable, ap_enable, scanned>>

RemoveMode ==
  \E mode \in Modes \ {NULL_MODE}, F \in FailSets(ModeCalls) :
    /\ Ran("mgos_wifi_remove_mode", [mode |-> mode],
           mgos_wifi_remove_mode(Machine, mode, F))
    /\ UNCHANGED <<sta_enable, ap_enable, scanned>>

NextMode == AddMode \/ RemoveMode \/ Idle
SpecMode == InitMode /\ [][NextMode]_vars

\* ===================================================== properties checked
\* a radio mode as the set of features it holds
Features(mode) ==
  (IF mode \in {STATION_MODE, STATIONAP_MODE} THEN {"sta"} ELSE {})
    \cup (IF mode \in {SOFTAP_MODE, STATIONAP_MODE} THEN {"ap"} ELSE {})
ModeOf(fs) == CHOOSE mode \in Modes : Features(mode) = fs
HasSta(mode) == "sta" \in Features(mode)
HasAp(mode) == "ap" \in Features(mode)

Called(fn) == \E i \in 1..Len(calls) : calls[i].fn = fn
CalledTimes(fn) == Cardinality({i \in 1..Len(calls) : calls[i].fn = fn})
NoCallFailed == \A i \in 1..Len(calls) : calls[i].ok
OpmodeFailed ==
  \E i \in 1..Len(calls) : calls[i].fn = "wifi_set_opmode_current" /\ ~calls[i].ok
After(name) == pc = "done" /\ op = name

\* "enabling one feature never removes the other"
EnableKeepsOther ==
  /\ After("mgos_wifi_dev_sta_setup") /\ arg.cfg.enable
       => (HasAp(s_cur_mode) <=> HasAp(old_mode))
  /\ After("mgos_wifi_dev_ap_setup") /\ arg.cfg.enable
       => (HasSta(s_cur_mode) <=> HasSta(old_mode))

\* C1, as stated: when every vendor call succeeds, s_cur_mode holds station
\* iff the most recent sta_setup had enable set, and access-point iff the most
\* recent ap_setup had enable set; enabling one never removes the other.
C1_ModeIsUnionOfEnabled ==
  /\ HasSta(s_cur_mode) <=> sta_enable
  /\ HasAp(s_cur_mode) <=> ap_enable
  /\ EnableKeepsOther

\* C1, amended: when every vendor call succeeds, s_cur_mode holds access-point
\* iff the most recent ap_setup had enable set, and holds station iff the most
\* recent sta_setup had enable set or mgos_wifi_dev_start_scan has run since
\* that sta_setup (since boot if there was none); enabling one feature never
\* removes the other.
C1_ModeIsUnionOfEnabledOrScanned ==
  /\ HasSta(s_cur_mode) <=> (sta_enable \/ scanned)
  /\ HasAp(s_cur_mode) <=> ap_enable
  /\ EnableKeepsOther

\* a scan in access-point-only mode left the station feature on
C1_Witness ==
  /\ After("mgos_wifi_dev_start_scan")
  /\ ap_enable /\ ~sta_enable
  /\ old_mode = SOFTAP_MODE
  /\ s_cur_mode = STATIONAP_MODE

\* C2: for every current mode and every requested mode in {AP, STA, AP+STA},
\* mgos_wifi_add_mode with a succeeding vendor opmode call returns true and
\* leaves s_cur_mode equal to the union of the current and the requested mode;
\* when that union is the current mode it returns true without a vendor opmode
\* call and without changing s_cur_mode.
C2_AddModeIsUnion ==
  After("mgos_wifi_add_mode") =>
    LET u == ModeOf(Features(old_mode) \cup Features(arg.mode))
    IN  /\ NoCallFailed => ret /\ s_cur_mode = u
        /\ u = old_mode => ret /\ calls = <<>> /\ s_cur_mode = old_mode
        /\ u # old_mode =>
             /\ calls[1].fn = "wifi_set_opmode_current" /\ calls[1].arg = u
             /\ CalledTimes("wifi_set_opmode_current") = 1

\* station added to access-point gave the combined mode
C2_Witness ==
  /\ After("mgos_wifi_add_mode")
  /\ old_mode = SOFTAP_MODE /\ arg.mode = STATION_MODE
  /\ ret /\ s_cur_mode = STATIONAP_MODE

\* C3: for every current mode and every requested mode in {AP, STA},
\* mgos_wifi_remove_mode with a succeeding vendor opmode call leaves s_cur_mode
\* equal to the current mode minus the requested one; when the requested mode
\* is absent from the current mode it returns true without a vendor opmode call
\* and without changing s_cur_mode; removing AP+STA from any non-Off mode
\* yields Off.
C3_RemoveModeIsDifference ==
  After("mgos_wifi_remove_mode") =>
    LET d == ModeOf(Features(old_mode) \ Features(arg.mode))
    IN  /\ NoCallFailed => ret /\ s_cur_mode = d
        /\ Features(old_mode) \cap Features(arg.mode) = {} =>
             ret /\ calls = <<>> /\ s_cur_mode = old_mode
        /\ Features(old_mode) \cap Features(arg.mode) # {} =>
             /\ calls[1].fn = "wifi_set_opmode_current" /\ calls[1].arg = d
             /\ CalledTimes("wifi_set_opmode_current") = 1
        /\ arg.mode = STATIONAP_MODE /\ old_mode # NULL_MODE /\ NoCallFailed =>
             s_cur_mode = NULL_MODE

\* station removed from the combined mode left access-point
C3_Witness ==
  /\ After("mgos_wifi_remove_mode")
  /\ old_mode = STATIONAP_MODE /\ arg.mode = STATION_MODE
  /\ ret /\ s_cur_mode = SOFTAP_MODE

ModeHandlers == {"mgos_wifi_dev_sta_setup", "mgos_wifi_dev_ap_setup",
                 "mgos_wifi_dev_start_scan", "mgos_wifi_add_mode",
                 "mgos_wifi_remove_mode"}

\* C4: when the vendor opmode switch fails inside mgos_wifi_set_mode, under any
\* of the operations that reach it, s_cur_mode is unchanged, modem sleep is not
\* touched and the operation returns failure; s_cur_mode changes only in a step
\* whose vendor opmode switch succeeded, and then to the mode passed to it.
C4_FailedSwitchLeavesMode ==
  /\ pc = "done" /\ op \in ModeHandlers /\ OpmodeFailed =>
       /\ s_cur_mode = old_mode
       /\ ~Called("wifi_set_sleep_type")
       /\ ret = FALSE
  /\ s_cur_mode # old_mode =>
       \E i \in 1..Len(calls) :
         /\ calls[i].fn = "wifi_set_opmode_current"
         /\ calls[i].ok
         /\ calls[i].arg = s_cur_mode

\* a station setup in access-point mode whose opmode switch failed
C4_Witness ==
  /\ After("mgos_wifi_dev_sta_setup")
  /\ arg.cfg.enable
  /\ old_mode = SOFTAP_MODE
  /\ OpmodeFailed
  /\ s_cur_mode = SOFTAP_MODE /\ ret = FALSE

\* C5: whenever mgos_wifi_dev_start_scan issues the vendor scan request, the
\* operating mode last applied to the SDK is station-capable; if adding station
\* mode fails the request is not issued and start_scan returns failure.
C5_ScanNeedsStation ==
  After("mgos_wifi_dev_start_scan") =>
    /\ Called("wifi_station_scan") => opmode \in {STATION_MODE, STATIONAP_MODE}
    /\ OpmodeFailed => ~Called("wifi_station_scan") /\ ret = FALSE

\* C6: on an authentication-mode change wifi_changed_cb calls
\* wifi_station_disconnect exactly when the old mode is not open and the new
\* one is, and in no other case; that event and every other unmapped event
\* never reach mgos_wifi_dev_event_cb, each of the five mapped events reaches
\* it exactly once.
C6_EventTranslation ==
  After("wifi_changed_cb") =>
    /\ Called("wifi_station_disconnect") <=>
         /\ arg.event = "EVENT_STAMODE_AUTHMODE_CHANGE"
         /\ arg.old_mode # AUTH_OPEN
         /\ arg.new_mode = AUTH_OPEN
    /\ CalledTimes("wifi_station_disconnect") <= 1
    /\ arg.event \in MappedEvents =>
         Len(cbs) = 1 /\ cbs[1].cb = "mgos_wifi_dev_event_cb" /\ cbs[1].ev # 0
    /\ arg.event \notin MappedEvents => cbs = <<>>

\* a downgrade from WPA2 to open forced a disconnect and forwarded nothing
C6_Witness ==
  /\ After("wifi_changed_cb")
  /\ arg.event = "EVENT_STAMODE_AUTHMODE_CHANGE"
  /\ arg.old_mode = AUTH_WPA2_PSK /\ arg.new_mode = AUTH_OPEN
  /\ Called("wifi_station_disconnect")
  /\ cbs = <<>>

CallocFailed == \E i \in 1..Len(calls) : calls[i].fn = "calloc" /\ ~calls[i].ok

\* C7: every run of wifi_scan_done calls mgos_wifi_dev_scan_cb exactly once:
\* with count -1 and a null pointer when the status is not OK or the array
\* cannot be allocated, with count 0 and a null pointer when the status is OK
\* and the list is empty, and otherwise with the length n of the list and an
\* array of exactly n entries in list order.
C7_ScanCallbackOnce ==
  After("wifi_scan_done") =>
    /\ Len(cbs) = 1
    /\ cbs[1].cb = "mgos_wifi_dev_scan_cb"
    /\ IF arg.status # OK \/ CallocFailed
       THEN cbs[1].n = -1 /\ cbs[1].null
       ELSE IF arg.info = <<>>
       THEN cbs[1].n = 0 /\ cbs[1].null
       ELSE /\ cbs[1].n = Len(arg.info)
            /\ ~cbs[1].null
            /\ Len(cbs[1].res) = Len(arg.info)
            /\ \A i \in 1..Len(arg.info) :
                 /\ cbs[1].res[i].bssid = arg.info[i].bssid
                 /\ cbs[1].res[i].channel = arg.info[i].channel

\* a list of two different networks arrived as an array of two, in order
C7_Witness ==
  /\ After("wifi_scan_done")
  /\ arg.status = OK
  /\ Len(arg.info) = 2 /\ arg.info[1].bssid # arg.info[2].bssid
  /\ Len(cbs) = 1 /\ cbs[1].n = 2
  /\ cbs[1].res[2].bssid = arg.info[2].bssid

\* position of group k when the groups before it have l[1], ..., l[k-1] digits
RECURSIVE GroupStart(_, _)
GroupStart(l, k) == IF k = 1 THEN 1 ELSE GroupStart(l, k - 1) + l[k - 1] + 1

\* s starts with six groups of one or two hex digits, separated by colons
SixHexGroups(s) ==
  \E l \in [1..6 -> {1, 2}] :
    \A k \in 1..6 :
      LET st == GroupStart(l, k)
      IN  /\ \A j \in 0..(l[k] - 1) : IsHex(s, st + j)
          /\ k < 6 => st + l[k] <= Len(s) /\ s[st + l[k]] = ":"

LaterStaSteps == {"wifi_station_dhcpc_stop", "wifi_set_ip_info",
                  "wifi_station_set_config_current",
                  "wifi_station_set_auto_connect",
                  "wifi_station_set_reconnect_policy",
                  "wifi_station_set_enterprise_username",
                  "wifi_station_set_wpa2_enterprise_auth",
                  "wifi_station_set_hostname"}

BadBssidSetup ==
  /\ After("mgos_wifi_dev_sta_setup")
  /\ arg.cfg.enable
  /\ ~arg.cfg.bssid.null
  /\ ~SixHexGroups(arg.cfg.bssid.s)

ApSetupCalls == {"wifi_set_opmode_current", "wifi_softap_set_config_current",
                 "wifi_softap_dhcps_stop", "wifi_set_ip_info",
                 "wifi_softap_set_dhcps_lease",
                 "wifi_softap_set_dhcps_offer_option", "wifi_softap_dhcps_start"}

\* C9: in an access-point setup with access-point enabled, a failure of any of
\* the vendor calls of the setup makes it return failure and make no later
\* vendor call; it returns success only if every one of them succeeded.
C9_ApSetupAbortsOnAnyFailure ==
  After("mgos_wifi_dev_ap_setup") /\ arg.cfg.enable =>
    \A i \in 1..Len(calls) :
      calls[i].fn \in ApSetupCalls /\ ~calls[i].ok =>
        ret = FALSE /\ i = Len(calls)

\* C10: s_cur_mode is the operating mode most recently applied successfully to
\* the SDK through wifi_set_opmode_current; after mgos_wifi_dev_deinit or a
\* repeated mgos_wifi_dev_init it is Off.
C10_StoredModeIsVendorMode == s_cur_mode = opmode

====
